---- MODULE Spec2Model ----
(***************************************************************************)
(* The retry engine of rq: Request.DoWithRetry (retry.go) driving          *)
(* Request.DoContext (rq.go) through the transport, with body buffering,   *)
(* backoff, jitter and context cancellation.                               *)
(*                                                                         *)
(* Durations are integers in one time unit.  A float64 multiplier m is     *)
(* kept as the integer 10*m (tenths), and time.Duration(float64(d) * m)    *)
(* truncates, so it is (d * tenths) \div 10 for d >= 0.                    *)
(***************************************************************************)
EXTENDS Integers, Sequences, FiniteSets, TLC

VARIABLES
    entry,        \* which execute entry point the caller invoked
    config,       \* DoWithRetry's config variable (parameter, reassigned when nil)
    configWasNil, \* the caller passed config == nil
    rerr,         \* Request.err
    rurl,         \* Request.url / Request.method: can the wire request be formed
    body,         \* Request.body: the io.Reader the request holds
    ctx,          \* the context: "live" or "cancelled"
    cancelPc,     \* where the invocation was when the context was cancelled
    pc,           \* position of the invocation
    attempt,      \* loop variable of DoWithRetry
    delay,        \* local variable delay of DoWithRetry
    bodyBytes,    \* local variable bodyBytes of DoWithRetry
    resp,         \* local variable resp of DoWithRetry / response of DoContext
    result,       \* the value the entry point returned
    calls,        \* DoContext executions made by the invocation (attempts)
    sends,        \* transport exchanges started (client.Do calls)
    inFlight,     \* transport exchanges in flight
    predCalls,    \* invocations of config.RetryIf
    waits,        \* the durations waited until the timer fired, in order
    bodyReads,    \* io.ReadAll calls on the caller's body source
    sentBodies,   \* what the reader handed to the transport yielded, per send
    firstRefusal, \* index (1-based) of the first attempt whose outcome the predicate refuses
    refusedResp,  \* the response of that attempt
    outcome,      \* the response the latest DoContext execution returned
    probe,        \* argument and result of a direct call of defaultRetryIf
    rt,           \* one InterceptorTransport.RoundTrip call: its fields, position, effects
    mw,           \* one application of a middleware list: the request and the call log
    va,           \* one application of a Validator: its argument and result
    bo,           \* one call of a backoff function: its arguments and result
    sh,           \* two executions of one Request: the Request, the readers, each execution
    bd            \* a Request under construction: its fields and the builder calls made

vars == <<entry, config, configWasNil, rerr, rurl, body, ctx, cancelPc, pc,
          attempt, delay, bodyBytes, resp, result, calls, sends, inFlight,
          predCalls, waits, bodyReads, sentBodies, firstRefusal, refusedResp,
          outcome, probe, rt, mw, va, bo, sh, bd>>

----------------------------------------------------------------------------
(* Bounds *)

\* largest MaxAttempts a config carries
MaxN == 3
\* length of the request body in bytes
BodyLen == 2

MaxAttemptsSet == (-1)..MaxN
DelaySet == {0, 4}
MaxDelaySet == {3, 6}
MultiplierSet == {10, 15, 20}
RetryIfSet == {"default", "unset", "status400", "always"}

----------------------------------------------------------------------------
(* Errors and responses *)

NoErr == "nil"
BuilderErr == "failed to marshal JSON"
ReadErr == "body source read error"
InvalidURLErr == "invalid URL"
CreateErr == "failed to create request"
TransportErr == "request failed: connection"
TransportCtxErr == "request failed: context canceled"
BodyErr == "failed to read body"
CtxErr == "context canceled"

\* *Response: isnil is a nil pointer; http is the embedded *http.Response
\* being non-nil; status is its StatusCode.
MkResponse(http, status, err) ==
    [isnil |-> FALSE, http |-> http, status |-> status, err |-> err]

NilResponse == [isnil |-> TRUE, http |-> FALSE, status |-> 0, err |-> NoErr]

ErrResponse(err) == MkResponse(FALSE, 0, err)

StatusSet == {200, 400, 429, 500}

\* Outcomes of one exchange through client.Do and the body read that follows
\* it (rq.go 218-235) while the context is live.
LiveOutcomes ==
    {MkResponse(TRUE, s, NoErr) : s \in StatusSet}
        \cup {ErrResponse(TransportErr), MkResponse(TRUE, 200, BodyErr)}

----------------------------------------------------------------------------
(* Request body readers *)

OriginalBody == [i \in 1..BodyLen |-> i]

NoBody == [present |-> FALSE, data |-> <<>>, pos |-> 0, fails |-> FALSE]

\* an io.Reader over data, read up to pos; fails: Read returns an error
\* before reaching EOF
Reader(data, fails) == [present |-> TRUE, data |-> data, pos |-> 0, fails |-> fails]

\* bytes.NewReader(b)
NewReader(data) == Reader(data, FALSE)

\* what reading the reader to its end yields
Remaining(b) == SubSeq(b.data, b.pos + 1, Len(b.data))

\* []byte(nil)
NilBytes == [isnil |-> TRUE, data |-> <<>>]

----------------------------------------------------------------------------
(* Retry configuration *)

\* *RetryConfig: isnil is the nil pointer
Configs ==
    [isnil : {FALSE}, MaxAttempts : MaxAttemptsSet, Delay : DelaySet,
     MaxDelay : MaxDelaySet, Multiplier : MultiplierSet, Jitter : BOOLEAN,
     RetryIf : RetryIfSet]

NilConfig ==
    [isnil |-> TRUE, MaxAttempts |-> 0, Delay |-> 0, MaxDelay |-> 0,
     Multiplier |-> 0, Jitter |-> FALSE, RetryIf |-> "unset"]

\* DefaultRetryConfig(), in units of 25ms
DefaultRetryConfig ==
    [isnil |-> FALSE, MaxAttempts |-> 3, Delay |-> 4, MaxDelay |-> 400,
     Multiplier |-> 20, Jitter |-> TRUE, RetryIf |-> "default"]

\* DoWithRetry lines 44-46
EffectiveConfig(c) == IF c.isnil THEN DefaultRetryConfig ELSE c

\* defaultRetryIf without the rate-limit case
defaultRetryIfNo429(r) ==
    IF r.err # NoErr THEN TRUE
    ELSE r.status >= 500

defaultRetryIf(r) ==
    IF r.err # NoErr THEN TRUE
    ELSE r.status >= 500 \/ r.status = 429

\* the caller's predicate passed over: every decision taken by the default
ApplyRetryIfDefaultOnly(f, r) == [panics |-> FALSE, value |-> defaultRetryIf(r)]

\* A call config.RetryIf(resp): panics is a nil function value being called,
\* or the predicate dereferencing the nil embedded *http.Response.
ApplyRetryIf(f, r) ==
    CASE f = "default" -> [panics |-> FALSE, value |-> defaultRetryIf(r)]
      [] f = "unset" -> [panics |-> TRUE, value |-> FALSE]
      [] f = "status400" ->
            IF r.http THEN [panics |-> FALSE, value |-> r.status = 400]
            ELSE [panics |-> TRUE, value |-> FALSE]
      [] f = "always" -> [panics |-> FALSE, value |-> TRUE]

\* addJitter(delay): delay + time.Duration(rand.Float64() * float64(delay) * 0.3),
\* rand.Float64() in [0, 1), the conversion truncating
addJitter(d) == {d + j : j \in {k \in 0..d : k = 0 \/ 10 * k < 3 * d}}

\* lines 91-94 of DoWithRetry
NextDelay(d, cfg) ==
    LET grown == (d * cfg.Multiplier) \div 10
    IN IF grown > cfg.MaxDelay THEN cfg.MaxDelay ELSE grown

\* the loop condition of DoWithRetry
LoopCondition(a, cfg) == a < cfg.MaxAttempts

\* the break test comparing against the wrong index
IsLastAttemptOffByOne(a, cfg) == a = cfg.MaxAttempts - 2

\* the break test of DoWithRetry
IsLastAttempt(a, cfg) == a = cfg.MaxAttempts - 1

\* The cases of the select statement that can proceed on entry; Go chooses
\* one of them pseudo-randomly, and blocks when there is none.
SelectCases(ctxDone, timerDue) ==
    (IF ctxDone THEN {"done"} ELSE {}) \cup (IF timerDue THEN {"timer"} ELSE {})

----------------------------------------------------------------------------
(* Initial states: a built request, a context, and a call about to be made *)

Requests ==
    {[err |-> e, url |-> u, body |-> b] :
        e \in {NoErr, BuilderErr},
        u \in {"ok"},
        b \in {NoBody, Reader(OriginalBody, FALSE), Reader(OriginalBody, TRUE)}}
    \cup
    {[err |-> e, url |-> u, body |-> NoBody] :
        e \in {NoErr, BuilderErr}, u \in {"badURL", "badMethod"}}

NoProbe == [called |-> FALSE, arg |-> NilResponse, value |-> FALSE]

NotCalled == [pc |-> "idle"]

OthersIdle ==
    /\ rt = NotCalled /\ mw = NotCalled /\ va = NotCalled
    /\ bo = NotCalled /\ sh = NotCalled /\ bd = NotCalled

InitLocals ==
    /\ ctx = "live"
    /\ cancelPc = "none"
    /\ pc = "call"
    /\ attempt = 0
    /\ delay = 0
    /\ bodyBytes = NilBytes
    /\ resp = NilResponse
    /\ result = NilResponse
    /\ calls = 0
    /\ sends = 0
    /\ inFlight = 0
    /\ predCalls = 0
    /\ waits = <<>>
    /\ bodyReads = 0
    /\ sentBodies = <<>>
    /\ firstRefusal = 0
    /\ refusedResp = NilResponse
    /\ outcome = NilResponse
    /\ probe = NoProbe

Init ==
    /\ \/ /\ entry = "DoWithRetry"
          /\ config \in Configs \cup {NilConfig}
       \/ /\ entry = "DoContext"
          /\ config = NilConfig
    /\ configWasNil = config.isnil
    /\ \E r \in Requests : rerr = r.err /\ rurl = r.url /\ body = r.body
    /\ InitLocals
    /\ OthersIdle

----------------------------------------------------------------------------
(* Actions *)

Return(r) ==
    /\ pc' = "done"
    /\ result' = r

\* Bookkeeping: the latest outcome, and the first outcome that the caller's
\* predicate refuses to retry
NoteOutcome(r, n) ==
    LET d == ApplyRetryIf(config.RetryIf, r)
    IN /\ outcome' = r
       /\ IF firstRefusal = 0 /\ ~d.panics /\ ~d.value
          THEN firstRefusal' = n /\ refusedResp' = r
          ELSE UNCHANGED <<firstRefusal, refusedResp>>

\* the stored error never looked at
PoisonedIgnored(e) == FALSE

\* the poisoned-builder test (rq.go 189, DoWithRetry line 48)
Poisoned(e) == e # NoErr

\* DoContext up to client.Do (rq.go 189-216): a response returned without
\* reaching the transport, or the wire request handed to client.Do.
DoContextPrefix ==
    IF Poisoned(rerr) THEN [sent |-> FALSE, resp |-> ErrResponse(rerr)]
    ELSE IF rurl = "badURL" THEN [sent |-> FALSE, resp |-> ErrResponse(InvalidURLErr)]
    ELSE IF rurl = "badMethod" THEN [sent |-> FALSE, resp |-> ErrResponse(CreateErr)]
    ELSE [sent |-> TRUE, resp |-> NilResponse]

\* DoWithRetry lines 43-63: nil config, poisoned request, body buffering.
\* io.ReadAll returns a non-nil slice for every reader that reaches EOF.
Enter ==
    /\ pc = "call"
    /\ entry = "DoWithRetry"
    /\ config' = EffectiveConfig(config)
    /\ IF Poisoned(rerr)
       THEN /\ Return(ErrResponse(rerr))
            /\ UNCHANGED <<body, bodyBytes, bodyReads, delay>>
       ELSE IF body.present
       THEN /\ bodyReads' = bodyReads + 1
            /\ IF body.fails
               THEN /\ \E n \in body.pos..Len(body.data) : body' = [body EXCEPT !.pos = n]
                    /\ Return(ErrResponse(ReadErr))
                    /\ UNCHANGED <<bodyBytes, delay>>
               ELSE /\ bodyBytes' = [isnil |-> FALSE, data |-> Remaining(body)]
                    /\ body' = [body EXCEPT !.pos = Len(body.data)]
                    /\ delay' = config'.Delay
                    /\ pc' = "loop"
                    /\ UNCHANGED result
       ELSE /\ delay' = config'.Delay
            /\ pc' = "loop"
            /\ UNCHANGED <<body, bodyBytes, bodyReads, result>>
    /\ UNCHANGED <<entry, configWasNil, rerr, rurl, ctx, cancelPc, attempt,
                   resp, calls, sends, inFlight, predCalls, waits, sentBodies,
                   firstRefusal, refusedResp, outcome, probe, rt, mw, va, bo, sh, bd>>

\* the reader left as the previous attempt left it
AttemptBodyStale(b, bytes) == b

\* The reader DoWithRetry installs before an attempt (lines 66-68)
AttemptBody(b, bytes) == IF ~bytes.isnil THEN NewReader(bytes.data) ELSE b

\* DoWithRetry lines 65-70: the loop test, the fresh reader, and DoContext up
\* to the call of client.Do.
LoopHead ==
    /\ pc = "loop"
    /\ IF LoopCondition(attempt, config)
       THEN LET b == AttemptBody(body, bodyBytes)
                p == DoContextPrefix
            IN /\ body' = b
               /\ calls' = calls + 1
               /\ IF p.sent
                  THEN /\ sends' = sends + 1
                       /\ inFlight' = inFlight + 1
                       /\ sentBodies' = Append(sentBodies, Remaining(b))
                       /\ pc' = "inflight"
                       /\ UNCHANGED <<resp, firstRefusal, refusedResp, outcome>>
                  ELSE /\ resp' = p.resp
                       /\ NoteOutcome(p.resp, calls + 1)
                       /\ pc' = "retryIf"
                       /\ UNCHANGED <<sends, inFlight, sentBodies>>
               /\ UNCHANGED result
       ELSE /\ Return(resp)
            /\ UNCHANGED <<body, calls, sends, inFlight, sentBodies, resp,
                           firstRefusal, refusedResp, outcome>>
    /\ UNCHANGED <<entry, config, configWasNil, rerr, rurl, ctx, cancelPc, attempt,
                   delay, bodyBytes, predCalls, waits, bodyReads, probe, rt, mw, va, bo, sh, bd>>

\* Request.DoContext called directly (rq.go 188-216)
DoContext ==
    /\ pc = "call"
    /\ entry = "DoContext"
    /\ LET p == DoContextPrefix
       IN IF p.sent
          THEN /\ calls' = calls + 1
               /\ sends' = sends + 1
               /\ inFlight' = inFlight + 1
               /\ sentBodies' = Append(sentBodies, Remaining(body))
               /\ pc' = "inflight"
               /\ UNCHANGED <<resp, result>>
          ELSE /\ calls' = calls + 1
               /\ resp' = p.resp
               /\ Return(p.resp)
               /\ UNCHANGED <<sends, inFlight, sentBodies>>
    /\ UNCHANGED <<entry, config, configWasNil, rerr, rurl, body, ctx, cancelPc,
                   attempt, delay, bodyBytes, predCalls, waits, bodyReads,
                   firstRefusal, refusedResp, outcome, probe, rt, mw, va, bo, sh, bd>>

\* What client.Do and the read of the response body produce (rq.go 218-235).
\* A cancelled context makes client.Do fail with the context's error.
Outcomes(c) == IF c = "cancelled" THEN {ErrResponse(TransportCtxErr)} ELSE LiveOutcomes

\* How far the transport may have read the request body when the exchange ends
Consumed(b, r) ==
    IF ~b.present THEN {b.pos}
    ELSE IF r.http THEN {Len(b.data)}
    ELSE b.pos..Len(b.data)

\* rq.go 218-235: the exchange ends and DoContext returns its response
TransportReturn ==
    /\ pc = "inflight"
    /\ \E r \in Outcomes(ctx) : \E n \in Consumed(body, r) :
          /\ body' = [body EXCEPT !.pos = n]
          /\ resp' = r
          /\ inFlight' = inFlight - 1
          /\ IF entry = "DoContext"
             THEN Return(r) /\ outcome' = r /\ UNCHANGED <<firstRefusal, refusedResp>>
             ELSE pc' = "retryIf" /\ NoteOutcome(r, calls) /\ UNCHANGED result
    /\ UNCHANGED <<entry, config, configWasNil, rerr, rurl, ctx, cancelPc, attempt,
                   delay, bodyBytes, calls, sends, predCalls, waits, bodyReads,
                   sentBodies, probe, rt, mw, va, bo, sh, bd>>

\* the predicate's answer read the wrong way round
StopsInverted(d) == d.value

\* line 72: the predicate's answer ends the loop
Stops(d) == ~d.value

\* jitter added whatever the configuration says
WaitDelayAlwaysJitter(d, cfg) == addJitter(d)

\* the delay handed to time.After (lines 80-82)
WaitDelay(d, cfg) == IF cfg.Jitter THEN addJitter(d) ELSE {d}

\* the break test made before the predicate is called
EvalRetryIfBreakFirst ==
    /\ pc = "retryIf"
    /\ IF IsLastAttempt(attempt, config)
       THEN Return(resp) /\ UNCHANGED <<delay, predCalls>>
       ELSE LET d == ApplyRetryIf(config.RetryIf, resp)
            IN /\ predCalls' = IF config.RetryIf = "unset" THEN predCalls
                               ELSE predCalls + 1
               /\ IF d.panics
                  THEN pc' = "panicked" /\ UNCHANGED <<result, delay>>
                  ELSE IF Stops(d)
                  THEN Return(resp) /\ UNCHANGED delay
                  ELSE /\ delay' \in WaitDelay(delay, config)
                       /\ pc' = "select"
                       /\ UNCHANGED result
    /\ UNCHANGED <<entry, config, configWasNil, rerr, rurl, body, ctx, cancelPc,
                   attempt, bodyBytes, resp, calls, sends, inFlight, waits,
                   bodyReads, sentBodies, firstRefusal, refusedResp, outcome,
                   probe, rt, mw, va, bo, sh, bd>>

\* the loop going round again without waiting
EvalRetryIfNoWait ==
    /\ pc = "retryIf"
    /\ LET d == ApplyRetryIf(config.RetryIf, resp)
       IN /\ predCalls' = IF config.RetryIf = "unset" THEN predCalls ELSE predCalls + 1
          /\ IF d.panics
             THEN pc' = "panicked" /\ UNCHANGED <<result, attempt>>
             ELSE IF Stops(d)
             THEN Return(resp) /\ UNCHANGED attempt
             ELSE IF IsLastAttempt(attempt, config)
             THEN Return(resp) /\ UNCHANGED attempt
             ELSE /\ attempt' = attempt + 1
                  /\ pc' = "loop"
                  /\ UNCHANGED result
    /\ UNCHANGED <<entry, config, configWasNil, rerr, rurl, body, ctx, cancelPc,
                   delay, bodyBytes, resp, calls, sends, inFlight, waits,
                   bodyReads, sentBodies, firstRefusal, refusedResp, outcome,
                   probe, rt, mw, va, bo, sh, bd>>

\* DoWithRetry lines 72-82: the predicate, the return, the break, the jitter
EvalRetryIf ==
    /\ pc = "retryIf"
    /\ LET d == ApplyRetryIf(config.RetryIf, resp)
       IN /\ predCalls' = IF config.RetryIf = "unset" THEN predCalls ELSE predCalls + 1
          /\ IF d.panics
             THEN pc' = "panicked" /\ UNCHANGED <<result, delay>>
             ELSE IF Stops(d)
             THEN Return(resp) /\ UNCHANGED delay
             ELSE IF IsLastAttempt(attempt, config)
             THEN Return(resp) /\ UNCHANGED delay
             ELSE /\ delay' \in WaitDelay(delay, config)
                  /\ pc' = "select"
                  /\ UNCHANGED result
    /\ UNCHANGED <<entry, config, configWasNil, rerr, rurl, body, ctx, cancelPc,
                   attempt, bodyBytes, resp, calls, sends, inFlight, waits,
                   bodyReads, sentBodies, firstRefusal, refusedResp, outcome, probe, rt, mw, va, bo, sh, bd>>

\* lines 85-87: the context is done
OnDone ==
    /\ resp' = [resp EXCEPT !.err = CtxErr]
    /\ Return(resp')
    /\ UNCHANGED <<waits, delay, attempt>>

\* lines 88-95: the timer fired; the delay advances and the loop continues
OnTimer ==
    /\ waits' = Append(waits, delay)
    /\ delay' = NextDelay(delay, config)
    /\ attempt' = attempt + 1
    /\ pc' = "loop"
    /\ UNCHANGED <<resp, result>>

\* DoWithRetry lines 84-89, on entering the select: time.After(delay) is due
\* at once for delay <= 0
Select ==
    /\ pc = "select"
    /\ LET cases == SelectCases(ctx = "cancelled", delay <= 0)
       IN IF cases = {}
          THEN pc' = "blocked" /\ UNCHANGED <<resp, result, waits, delay, attempt>>
          ELSE \E c \in cases : IF c = "done" THEN OnDone ELSE OnTimer
    /\ UNCHANGED <<entry, config, configWasNil, rerr, rurl, body, ctx, cancelPc,
                   bodyBytes, calls, sends, inFlight, predCalls, bodyReads,
                   sentBodies, firstRefusal, refusedResp, outcome, probe, rt, mw, va, bo, sh, bd>>

\* a wait that only the timer ends
BlockedWakeTimerOnly(c) == "timer"

\* The case a goroutine blocked in the select is woken with: the first
\* channel to become ready, ctx.Done() once the context is cancelled.
BlockedWake(c) == IF c = "cancelled" THEN "done" ELSE "timer"

\* DoWithRetry lines 84-89, the blocked select being woken
Wake ==
    /\ pc = "blocked"
    /\ IF BlockedWake(ctx) = "done" THEN OnDone ELSE OnTimer
    /\ UNCHANGED <<entry, config, configWasNil, rerr, rurl, body, ctx, cancelPc,
                   bodyBytes, calls, sends, inFlight, predCalls, bodyReads,
                   sentBodies, firstRefusal, refusedResp, outcome, probe, rt, mw, va, bo, sh, bd>>

\* The caller (or a deadline) cancels the context
Cancel ==
    /\ ctx = "live"
    /\ pc \in {"call", "loop", "inflight", "retryIf", "select", "blocked"}
    /\ ctx' = "cancelled"
    /\ cancelPc' = pc
    /\ UNCHANGED <<entry, config, configWasNil, rerr, rurl, body, pc, attempt,
                   delay, bodyBytes, resp, result, calls, sends, inFlight,
                   predCalls, waits, bodyReads, sentBodies, firstRefusal, refusedResp, outcome, probe, rt, mw, va, bo, sh, bd>>

Next ==
    \/ Enter
    \/ LoopHead
    \/ DoContext
    \/ TransportReturn
    \/ EvalRetryIf
    \/ Select
    \/ Wake
    \/ Cancel

Spec == Init /\ [][Next]_vars

----------------------------------------------------------------------------
(* defaultRetryIf on its own: every response DoContext can build *)

ProbeResponses ==
    {MkResponse(TRUE, s, e) : s \in 100..599, e \in {NoErr, BodyErr}}
        \cup {ErrResponse(e) : e \in {BuilderErr, InvalidURLErr, CreateErr,
                                      TransportErr, TransportCtxErr}}

InitRetryIf ==
    /\ entry = "defaultRetryIf"
    /\ config = NilConfig
    /\ configWasNil = TRUE
    /\ rerr = NoErr
    /\ rurl = "ok"
    /\ body = NoBody
    /\ InitLocals
    /\ OthersIdle

CallDefaultRetryIf ==
    /\ entry = "defaultRetryIf"
    /\ \E r \in ProbeResponses :
          probe' = [called |-> TRUE, arg |-> r, value |-> defaultRetryIf(r)]
    /\ UNCHANGED <<entry, config, configWasNil, rerr, rurl, body, ctx, cancelPc,
                   pc, attempt, delay, bodyBytes, resp, result, calls, sends,
                   inFlight, predCalls, waits, bodyReads, sentBodies,
                   firstRefusal, refusedResp, outcome, rt, mw, va, bo, sh, bd>>

NextRetryIf == CallDefaultRetryIf

SpecRetryIf == InitRetryIf /\ [][NextRetryIf]_vars

----------------------------------------------------------------------------
(* Properties of the retry engine *)

Returned == pc = "done" /\ entry = "DoWithRetry"

BodyBuffers == ~(body.present /\ body.fails)

\* C1 (as stated): with MaxAttempts = N >= 1, an unpoisoned request, a context
\* that is never cancelled and every outcome retryable, DoWithRetry makes
\* exactly N attempts and returns the N-th response unchanged.
C1_ExhaustedReturnsLast ==
    (Returned /\ rerr = NoErr /\ ctx = "live" /\ config.MaxAttempts >= 1
        /\ firstRefusal = 0)
    => (calls = config.MaxAttempts /\ result = outcome)

\* C1 (amended): the same, for a request whose body source, if any, is read
\* to its end without error when DoWithRetry buffers it.
C1_ExhaustedReturnsLastWhenBodyBuffers ==
    (Returned /\ rerr = NoErr /\ ctx = "live" /\ config.MaxAttempts >= 1
        /\ firstRefusal = 0 /\ BodyBuffers)
    => (calls = config.MaxAttempts /\ result = outcome)

C1_Witness ==
    /\ Returned /\ rerr = NoErr /\ ctx = "live" /\ firstRefusal = 0
    /\ config.MaxAttempts = 3 /\ calls = 3 /\ sends = 3
    /\ result.status = 500 /\ result.err = NoErr

\* C2: when the first k attempts are retryable and attempt k+1 is not,
\* DoWithRetry makes exactly k+1 attempts and returns the response of
\* attempt k+1.
C2_StopsAtFirstRefusal ==
    (entry = "DoWithRetry" /\ firstRefusal > 0)
    => /\ calls = firstRefusal
       /\ pc \in {"retryIf", "done"}
       /\ (pc = "done" => result = refusedResp)

C2_Witness ==
    /\ Returned /\ firstRefusal = 2 /\ calls = 2
    /\ result = MkResponse(TRUE, 200, NoErr)

\* C3: with MaxAttempts <= 1 (0 and negative values included) DoWithRetry on
\* an unpoisoned request makes exactly one attempt and returns its response.
C3_AtMostOneMeansOne ==
    (Returned /\ rerr = NoErr /\ BodyBuffers /\ config.MaxAttempts <= 1)
    => (calls = 1 /\ ~result.isnil /\ result = outcome)

\* C4: every duration waited between two consecutive attempts is at most
\* config.MaxDelay.
C4_WaitsWithinMaxDelay ==
    config.Delay <= config.MaxDelay
    => \A i \in 1..Len(waits) : waits[i] <= config.MaxDelay

\* C5: a poisoned request never reaches the transport, its body is not read,
\* and the response returned carries exactly the stored error.
C5_PoisonedNeverReachesTransport ==
    (rerr # NoErr /\ entry \in {"DoWithRetry", "DoContext"})
    => /\ sends = 0
       /\ bodyReads = 0
       /\ body.pos = 0
       /\ pc \in {"call", "done"}
       /\ (pc = "done" => result = ErrResponse(rerr))

C5_Witness ==
    /\ Returned /\ rerr = BuilderErr /\ body.present
    /\ config.MaxAttempts = 3 /\ result.err = BuilderErr

\* C6: a request body is read from its source exactly once, before the first
\* attempt, and every attempt hands the transport a reader yielding the
\* complete original body.
C6_BodyReplayedWhole ==
    (entry = "DoWithRetry" /\ body.present)
    => /\ bodyReads <= 1
       /\ (calls >= 1 => bodyReads = 1)
       /\ \A i \in 1..Len(sentBodies) : sentBodies[i] = OriginalBody

C6_Witness ==
    /\ entry = "DoWithRetry" /\ body.present /\ pc = "inflight"
    /\ Len(sentBodies) = 2 /\ outcome = ErrResponse(TransportErr)
    /\ sentBodies[2] = OriginalBody

\* C7: a context cancelled while DoWithRetry is blocked in the wait after
\* attempt i ends the invocation without attempt i+1, and the response
\* returned carries the context's error.
C7_CancelDuringWaitStops ==
    cancelPc = "blocked"
    => /\ pc \in {"blocked", "done"}
       /\ calls = Len(waits) + 1
       /\ (pc = "done" => result = [outcome EXCEPT !.err = CtxErr])

C7_Witness ==
    /\ Returned /\ cancelPc = "blocked" /\ calls = 2
    /\ result.err = CtxErr /\ result.status = 500

\* C8: once the context has been cancelled during an attempt or a wait, no
\* further attempt is started.
C8_NoAttemptAfterCancel ==
    [][(ctx = "cancelled" /\ cancelPc \in {"inflight", "retryIf", "select", "blocked"})
        => sends' = sends]_vars

\* C9: the default predicate is true exactly for a response with an error,
\* a status >= 500 or the status 429.
C9_DefaultPredicate ==
    probe.called
    => (probe.value <=>
            (probe.arg.err # NoErr \/ probe.arg.status >= 500 \/ probe.arg.status = 429))

C9_Witness ==
    /\ probe.called /\ probe.arg.err = NoErr /\ probe.arg.status = 429
    /\ probe.value

\* C10: with no predicate supplied (a nil config, or a config whose RetryIf
\* is unset) DoWithRetry decides with the default predicate and completes
\* normally.
C10_NoPredicateMeansDefault ==
    (entry = "DoWithRetry" /\ (configWasNil \/ config.RetryIf = "unset"))
    => /\ pc # "panicked"
       /\ (configWasNil /\ pc # "call" => config.RetryIf = "default")

\* C11: with a custom RetryIf (retry only on status 400) the decision after
\* every attempt is the custom predicate's: a 500 is returned after that
\* attempt with no further attempt, and a 400 is retried while attempts
\* remain.
C11_CustomPredicateDecides ==
    (entry = "DoWithRetry" /\ ~configWasNil /\ config.RetryIf = "status400"
        /\ calls >= 1 /\ outcome.http)
    => /\ (outcome.status # 400 =>
              /\ pc \in {"retryIf", "done"}
              /\ (pc = "done" => result = outcome))
       /\ (outcome.status = 400 /\ pc = "done" /\ ctx = "live" =>
              /\ calls = config.MaxAttempts
              /\ result = outcome)

C11_Witness ==
    /\ Returned /\ config.RetryIf = "status400" /\ config.MaxAttempts = 3
    /\ calls = 2 /\ Len(waits) = 1
    /\ result = MkResponse(TRUE, 500, NoErr)

\* C12: under the default predicate a construction error (invalid URL, wire
\* request not formed) or a response-body read error ends DoWithRetry at its
\* first occurrence: no wait and no further attempt follow it.
C12_OtherErrorsAreTerminal ==
    (entry = "DoWithRetry" /\ config.RetryIf = "default" /\ calls >= 1
        /\ outcome.err \in {InvalidURLErr, CreateErr, BodyErr})
    => pc \in {"retryIf", "done"}

\* C13: DoContext and DoWithRetry never panic and always return a non-nil
\* Response (here with a predicate that does not itself panic).
C13_AlwaysAResponse ==
    (entry \in {"DoWithRetry", "DoContext"} /\ config.RetryIf # "status400")
    => /\ pc # "panicked"
       /\ (pc = "done" => ~result.isnil)

----------------------------------------------------------------------------
(* InterceptorTransport.RoundTrip *)

engineVars == <<entry, config, configWasNil, rerr, rurl, body, ctx, cancelPc,
                pc, attempt, delay, bodyBytes, resp, result, calls, sends,
                inFlight, predCalls, waits, bodyReads, sentBodies,
                firstRefusal, refusedResp, outcome, probe>>

EngineUnused(e) ==
    /\ entry = e
    /\ config = NilConfig
    /\ configWasNil = TRUE
    /\ rerr = NoErr
    /\ rurl = "ok"
    /\ body = NoBody
    /\ InitLocals

\* what a hook field holds: nothing, a function that returns nil, or one
\* that returns an error
HookSet == {"nil", "ok", "err"}

\* the errors a hook can return
HookErrs == {"hook error A", "hook error B"}

\* Base: nil (http.DefaultTransport is used) or the caller's RoundTripper
BaseSet == {"nil", "custom"}

WireStatusSet == {200, 404, 500}

NoWireResp == [isnil |-> TRUE, status |-> 0]

WireResp(s) == [isnil |-> FALSE, status |-> s]

\* what base.RoundTrip returns: a response and nil, or nil and an error
TransportResults ==
    {[resp |-> WireResp(s), err |-> NoErr] : s \in WireStatusSet}
        \cup {[resp |-> NoWireResp, err |-> e] : e \in {TransportErr, TransportCtxErr}}

NoCall == [called |-> FALSE, err |-> NoErr]

RtStarts ==
    {[pc |-> "requestInterceptor",
      RequestInterceptor |-> q, Base |-> b, ResponseInterceptor |-> p,
      base |-> "unset", resp |-> NoWireResp,
      log |-> <<>>, reqHook |-> NoCall, respHook |-> NoCall,
      transportErr |-> NoErr, closes |-> 0,
      ret |-> [resp |-> NoWireResp, err |-> NoErr]] :
        q \in HookSet, b \in BaseSet, p \in HookSet}

InitRoundTrip ==
    /\ EngineUnused("RoundTrip")
    /\ rt \in RtStarts
    /\ mw = NotCalled
    /\ va = NotCalled
    /\ bo = NotCalled
    /\ sh = NotCalled
    /\ bd = NotCalled

\* the errors a call of hook h can return; nil among them when it succeeds
HookReturns(h) == IF h = "ok" THEN {NoErr} ELSE HookErrs

\* lines 31-35 with the request interceptor's error dropped
RequestInterceptorStepErrIgnored ==
    /\ rt.pc = "requestInterceptor"
    /\ IF rt.RequestInterceptor = "nil"
       THEN rt' = [rt EXCEPT !.pc = "transport"]
       ELSE \E e \in HookReturns(rt.RequestInterceptor) :
               rt' = [rt EXCEPT !.log = Append(@, "RequestInterceptor"),
                                !.reqHook = [called |-> TRUE, err |-> e],
                                !.pc = "transport"]
    /\ UNCHANGED <<engineVars, mw, va, bo, sh, bd>>

RequestInterceptorStep ==
    /\ rt.pc = "requestInterceptor"
    /\ IF rt.RequestInterceptor = "nil"
       THEN rt' = [rt EXCEPT !.pc = "transport"]
       ELSE \E e \in HookReturns(rt.RequestInterceptor) :
               LET called == [rt EXCEPT !.log = Append(@, "RequestInterceptor"),
                                        !.reqHook = [called |-> TRUE, err |-> e]]
               IN  IF e # NoErr
                   THEN rt' = [called EXCEPT !.pc = "returned",
                                             !.ret = [resp |-> NoWireResp, err |-> e]]
                   ELSE rt' = [called EXCEPT !.pc = "transport"]
    /\ UNCHANGED <<engineVars, mw, va, bo, sh, bd>>

\* lines 37-45 with the transport's error not checked
TransportStepErrUnchecked ==
    /\ rt.pc = "transport"
    /\ \E t \in TransportResults :
          rt' = [rt EXCEPT !.base = IF rt.Base = "nil" THEN "DefaultTransport" ELSE "custom",
                           !.log = Append(@, "Transport"),
                           !.resp = t.resp,
                           !.transportErr = t.err,
                           !.pc = "responseInterceptor"]
    /\ UNCHANGED <<engineVars, mw, va, bo, sh, bd>>

TransportStep ==
    /\ rt.pc = "transport"
    /\ \E t \in TransportResults :
          LET called == [rt EXCEPT !.base = IF rt.Base = "nil" THEN "DefaultTransport"
                                                               ELSE "custom",
                                   !.log = Append(@, "Transport"),
                                   !.resp = t.resp,
                                   !.transportErr = t.err]
          IN  IF t.err # NoErr
              THEN rt' = [called EXCEPT !.pc = "returned",
                                        !.ret = [resp |-> NoWireResp, err |-> t.err]]
              ELSE rt' = [called EXCEPT !.pc = "responseInterceptor"]
    /\ UNCHANGED <<engineVars, mw, va, bo, sh, bd>>

\* lines 47-54 with the body left open when the response interceptor fails
ResponseInterceptorStepBodyLeft ==
    /\ rt.pc = "responseInterceptor"
    /\ IF rt.ResponseInterceptor = "nil"
       THEN rt' = [rt EXCEPT !.pc = "returned",
                             !.ret = [resp |-> rt.resp, err |-> NoErr]]
       ELSE \E e \in HookReturns(rt.ResponseInterceptor) :
               LET called == [rt EXCEPT !.log = Append(@, "ResponseInterceptor"),
                                        !.respHook = [called |-> TRUE, err |-> e]]
               IN  IF e # NoErr
                   THEN rt' = [called EXCEPT !.pc = "returned",
                                             !.ret = [resp |-> NoWireResp, err |-> e]]
                   ELSE rt' = [called EXCEPT !.pc = "returned",
                                             !.ret = [resp |-> rt.resp, err |-> NoErr]]
    /\ UNCHANGED <<engineVars, mw, va, bo, sh, bd>>

ResponseInterceptorStep ==
    /\ rt.pc = "responseInterceptor"
    /\ IF rt.ResponseInterceptor = "nil"
       THEN rt' = [rt EXCEPT !.pc = "returned",
                             !.ret = [resp |-> rt.resp, err |-> NoErr]]
       ELSE \E e \in HookReturns(rt.ResponseInterceptor) :
               LET called == [rt EXCEPT !.log = Append(@, "ResponseInterceptor"),
                                        !.respHook = [called |-> TRUE, err |-> e]]
               IN  IF e # NoErr
                   THEN rt' = [called EXCEPT !.closes = @ + 1,
                                             !.pc = "returned",
                                             !.ret = [resp |-> NoWireResp, err |-> e]]
                   ELSE rt' = [called EXCEPT !.pc = "returned",
                                             !.ret = [resp |-> rt.resp, err |-> NoErr]]
    /\ UNCHANGED <<engineVars, mw, va, bo, sh, bd>>

NextRoundTrip ==
    \/ RequestInterceptorStep
    \/ TransportStep
    \/ ResponseInterceptorStep

SpecRoundTrip == InitRoundTrip /\ [][NextRoundTrip]_vars

Count(log, name) == Cardinality({i \in 1..Len(log) : log[i] = name})

RoundTripReturned == entry = "RoundTrip" /\ rt.pc = "returned"

\* C14: when the configured request interceptor returns an error, RoundTrip
\* has returned without invoking the transport or the response interceptor,
\* and what it returned is no response and exactly that error.
C14_RequestInterceptorErrorAborts ==
    (entry = "RoundTrip" /\ rt.reqHook.called /\ rt.reqHook.err # NoErr)
    => /\ rt.pc = "returned"
       /\ Count(rt.log, "Transport") = 0
       /\ Count(rt.log, "ResponseInterceptor") = 0
       /\ rt.ret = [resp |-> NoWireResp, err |-> rt.reqHook.err]

C14_Witness ==
    /\ RoundTripReturned
    /\ rt.ResponseInterceptor = "ok"
    /\ rt.reqHook = [called |-> TRUE, err |-> "hook error B"]
    /\ rt.ret.err = "hook error B"

\* C15: when the transport succeeded and the configured response interceptor
\* returned an error, the transport has been invoked exactly once, and once
\* RoundTrip has returned the response body has been closed exactly once and
\* the return value is no response and exactly the interceptor's error.
C15_ResponseInterceptorErrorClosesBody ==
    (entry = "RoundTrip" /\ rt.respHook.called /\ rt.respHook.err # NoErr
        /\ rt.transportErr = NoErr)
    => /\ Count(rt.log, "Transport") = 1
       /\ rt.pc = "returned"
       /\ rt.closes = 1
       /\ rt.ret = [resp |-> NoWireResp, err |-> rt.respHook.err]

C15_Witness ==
    /\ RoundTripReturned
    /\ rt.RequestInterceptor = "ok"
    /\ rt.resp = WireResp(200)
    /\ rt.respHook = [called |-> TRUE, err |-> "hook error A"]
    /\ rt.closes = 1

Rank(name) ==
    CASE name = "RequestInterceptor" -> 1
      [] name = "Transport" -> 2
      [] name = "ResponseInterceptor" -> 3

\* C16: when the transport returns an error, RoundTrip has returned that same
\* error with no response and the response interceptor has not been invoked;
\* and at every point of every RoundTrip the calls made so far are in the
\* order request interceptor, transport, response interceptor, each at most
\* once.
C16_TransportErrorPropagates ==
    entry = "RoundTrip"
    => /\ (rt.transportErr # NoErr =>
              /\ rt.pc = "returned"
              /\ rt.ret = [resp |-> NoWireResp, err |-> rt.transportErr]
              /\ Count(rt.log, "ResponseInterceptor") = 0)
       /\ \A i, j \in 1..Len(rt.log) : i < j => Rank(rt.log[i]) < Rank(rt.log[j])

C16_Witness ==
    /\ RoundTripReturned
    /\ rt.RequestInterceptor = "ok" /\ rt.ResponseInterceptor = "ok"
    /\ rt.log = <<"RequestInterceptor", "Transport">>
    /\ rt.ret = [resp |-> NoWireResp, err |-> TransportErr]

----------------------------------------------------------------------------
(* Middleware: Request.Use and Chain *)

MaxMiddleware == 3

HeaderKeys == {"User-Agent", "X-Middleware-1"}

HeaderValues == {"a", "b"}

\* Request.headers is an http.Header: every key maps to a list of values
NoHeaders == [k \in HeaderKeys |-> <<>>]

\* the Request a middleware receives: New(), or one a builder has poisoned
MwRequests == {[err |-> e, headers |-> NoHeaders, timeout |-> 0] : e \in {NoErr, BuilderErr}}

\* Request.Header: http.Header.Add, skipped on a poisoned request
HeaderAdd(r, key, value) ==
    IF r.err # NoErr THEN r
    ELSE [r EXCEPT !.headers[key] = Append(@, value)]

\* Request.Headers with a one-entry map: http.Header.Set, skipped on a
\* poisoned request
HeadersSet(r, key, value) ==
    IF r.err # NoErr THEN r
    ELSE [r EXCEPT !.headers[key] = <<value>>]

\* Request.Timeout
SetTimeout(r, t) ==
    IF r.err # NoErr THEN r
    ELSE [r EXCEPT !.timeout = t]

Middlewares ==
    {[kind |-> "Logging", key |-> "", value |-> ""]}
        \cup {[kind |-> "UserAgent", key |-> "User-Agent", value |-> v] : v \in HeaderValues}
        \cup {[kind |-> "Timeout", key |-> "", value |-> ""]}
        \cup {[kind |-> "Headers", key |-> k, value |-> v] : k \in HeaderKeys, v \in HeaderValues}
        \cup {[kind |-> "Header", key |-> "X-Middleware-1", value |-> "true"]}

\* m(r) for each middleware
ApplyMiddleware(m, r) ==
    CASE m.kind = "Logging" -> r
      [] m.kind = "UserAgent" -> HeaderAdd(r, "User-Agent", m.value)
      [] m.kind = "Timeout" -> SetTimeout(r, 5)
      [] m.kind = "Headers" -> HeadersSet(r, m.key, m.value)
      [] m.kind = "Header" -> HeaderAdd(r, m.key, m.value)

MiddlewareLists == UNION {[1..n -> Middlewares] : n \in 0..MaxMiddleware}

\* range over the list from its far end
RangeIndexReversed(n, k) == n + 1 - k

\* the element the k-th iteration of "for _, m := range middleware" takes
RangeIndex(n, k) == k

InitMiddleware ==
    /\ EngineUnused("Middleware")
    /\ rt = NotCalled
    /\ va = NotCalled
    /\ bo = NotCalled
    /\ sh = NotCalled
    /\ bd = NotCalled
    /\ \E f \in {"Use", "Chain"}, l \in MiddlewareLists, r \in MwRequests :
          mw = [pc |-> "loop", func |-> f, middleware |-> l, original |-> r,
                r |-> r, k |-> 0, log |-> <<>>, ret |-> r]

\* one iteration of the loop: r = m(r)
MiddlewareCall ==
    /\ mw.pc = "loop"
    /\ mw.k < Len(mw.middleware)
    /\ LET i == RangeIndex(Len(mw.middleware), mw.k + 1)
           out == ApplyMiddleware(mw.middleware[i], mw.r)
       IN  mw' = [mw EXCEPT !.k = @ + 1,
                            !.r = out,
                            !.log = Append(@, [index |-> i, got |-> mw.r, gave |-> out])]
    /\ UNCHANGED <<engineVars, rt, va, bo, sh, bd>>

\* return r
MiddlewareReturn ==
    /\ mw.pc = "loop"
    /\ mw.k = Len(mw.middleware)
    /\ mw' = [mw EXCEPT !.pc = "returned", !.ret = mw.r]
    /\ UNCHANGED <<engineVars, rt, va, bo, sh, bd>>

NextMiddleware ==
    \/ MiddlewareCall
    \/ MiddlewareReturn

SpecMiddleware == InitMiddleware /\ [][NextMiddleware]_vars

HeaderPresent(r, key) == r.headers[key] # <<>>

\* C17: Chain(m1, ..., mn) and Request.Use(m1, ..., mn) alike invoke the
\* middleware in list order, each exactly once by the time they return; each
\* middleware receives the request the previous one returned (the first, the
\* original) and the last one's result is what is returned; so a header that
\* one middleware's result carries is present in the request every later
\* middleware receives and in the returned request.
C17_ChainAppliesInListOrder ==
    entry = "Middleware"
    => /\ \A i \in 1..Len(mw.log) :
             /\ mw.log[i].index = i
             /\ mw.log[i].got = IF i = 1 THEN mw.original ELSE mw.log[i - 1].gave
             /\ mw.log[i].gave = ApplyMiddleware(mw.middleware[i], mw.log[i].got)
       /\ \A i, j \in 1..Len(mw.log) : \A key \in HeaderKeys :
             (i < j /\ HeaderPresent(mw.log[i].gave, key))
                 => HeaderPresent(mw.log[j].got, key)
       /\ (mw.pc = "returned" =>
              /\ Len(mw.log) = Len(mw.middleware)
              /\ mw.ret = IF mw.log = <<>> THEN mw.original
                          ELSE mw.log[Len(mw.log)].gave
              /\ \A i \in 1..Len(mw.log) : \A key \in HeaderKeys :
                    HeaderPresent(mw.log[i].gave, key) => HeaderPresent(mw.ret, key))

C17_Witness ==
    /\ entry = "Middleware" /\ mw.pc = "returned" /\ mw.func = "Chain"
    /\ Len(mw.middleware) = 3
    /\ mw.middleware[1].kind = "Header" /\ mw.middleware[2].kind = "UserAgent"
    /\ mw.middleware[3].kind = "Headers" /\ mw.middleware[3].key = "User-Agent"
    /\ mw.log[3].got.headers["X-Middleware-1"] = <<"true">>
    /\ mw.ret.headers["X-Middleware-1"] = <<"true">>
    /\ mw.ret.headers["User-Agent"] = <<mw.middleware[3].value>>

----------------------------------------------------------------------------
(* Validators: Validate.OK, StatusCode, All, Any, Not *)

MaxValidators == 3

\* an error value: nil, or an error whose message is a list of pieces
NilError == [isnil |-> TRUE, msg |-> <<>>]

Errorf(msg) == [isnil |-> FALSE, msg |-> msg]

\* %d of a status code
StatusText(s) ==
    CASE s = 200 -> "200"
      [] s = 404 -> "404"
      [] s = 500 -> "500"
      [] OTHER -> "0"

\* " [%d]" of a position in errs
IndexText(i) == <<" [1]", " [2]", " [3]", " [4]", " [5]">>[i]

\* the responses a validator is applied to: the ones DoContext builds
VaResponses ==
    {MkResponse(TRUE, s, NoErr) : s \in {200, 404, 500}}
        \cup {ErrResponse(TransportErr), MkResponse(TRUE, 200, BodyErr)}

\* Response.IsOK
IsOK(r) == r.err = NoErr /\ r.http /\ r.status >= 200 /\ r.status < 300

\* a Validator as the expression that built it
Leaf(op, expected) == [op |-> op, expected |-> expected, validators |-> <<>>]

ValidateNot(v) == [op |-> "Not", expected |-> 0, validators |-> <<v>>]

ValidateAll(l) == [op |-> "All", expected |-> 0, validators |-> l]

ValidateAny(l) == [op |-> "Any", expected |-> 0, validators |-> l]

Leaves == {Leaf("OK", 0), Leaf("StatusCode", 200), Leaf("StatusCode", 404)}

\* the validators that appear as arguments of a combinator
SubValidators ==
    Leaves \cup {ValidateNot(Leaf("OK", 0)),
                 ValidateAny(<<Leaf("StatusCode", 404), Leaf("OK", 0)>>),
                 ValidateAll(<<Leaf("OK", 0), Leaf("StatusCode", 404)>>)}

ValidatorLists == UNION {[1..n -> SubValidators] : n \in 0..MaxValidators}

Validators ==
    {ValidateAll(l) : l \in ValidatorLists} \cup {ValidateAny(l) : l \in ValidatorLists}
        \cup {ValidateNot(v) : v \in SubValidators} \cup {ValidateNot(ValidateNot(v)) : v \in SubValidators}

\* Validate.OK applied to r
ValidateOK(r) ==
    IF r.err # NoErr THEN Errorf(<<r.err>>)
    ELSE IF ~IsOK(r) THEN Errorf(<<"expected 2xx status, got ", StatusText(r.status)>>)
    ELSE NilError

\* Validate.StatusCode(expected) applied to r
ValidateStatusCode(expected, r) ==
    IF r.err # NoErr THEN Errorf(<<r.err>>)
    ELSE IF r.status # expected
         THEN Errorf(<<"expected status ", StatusText(expected), ", got ", StatusText(r.status)>>)
         ELSE NilError

\* All's loop that never returns early
AllReturnsNever(err) == FALSE

\* All: if err := validator(r); err != nil { return err }
AllReturns(err) == ~err.isnil

\* Any's failure as the first error alone
AnyFailureFirstOnly(errs) ==
    IF errs = <<>> THEN Errorf(<<"all validators failed:">>) ELSE errs[1]

RECURSIVE JoinErrs(_, _)
\* Any: the loop writing " [i] err" for every collected error from position i
JoinErrs(errs, i) ==
    IF i > Len(errs) THEN <<>>
    ELSE <<IndexText(i)>> \o errs[i].msg \o JoinErrs(errs, i + 1)

\* Any: what is returned after every validator failed
AnyFailure(errs) ==
    IF Len(errs) = 1 THEN errs[1]
    ELSE Errorf(<<"all validators failed:">> \o JoinErrs(errs, 1))

\* Not that hands on the error the response carries
NotResultKeepsResponseErr(err, r) ==
    IF r.err # NoErr THEN Errorf(<<r.err>>)
    ELSE IF err.isnil THEN Errorf(<<"expected validation to fail but it passed">>)
    ELSE NilError

\* Not, given what the inner validator returned for r
NotResult(err, r) ==
    IF err.isnil THEN Errorf(<<"expected validation to fail but it passed">>)
    ELSE NilError

Evaluated(i, err) == <<[index |-> i, err |-> err]>>

RECURSIVE Eval(_, _), AllLoop(_, _, _), AnyLoop(_, _, _, _)
\* All's loop from position i: the error returned and the calls made
AllLoop(validators, r, i) ==
    IF i > Len(validators) THEN [err |-> NilError, evaluated |-> <<>>]
    ELSE LET err == Eval(validators[i], r).err
         IN  IF AllReturns(err)
             THEN [err |-> err, evaluated |-> Evaluated(i, err)]
             ELSE LET rest == AllLoop(validators, r, i + 1)
                  IN  [err |-> rest.err, evaluated |-> Evaluated(i, err) \o rest.evaluated]

\* Any's loop from position i with the errors collected so far
AnyLoop(validators, r, i, errs) ==
    IF i > Len(validators) THEN [err |-> AnyFailure(errs), evaluated |-> <<>>]
    ELSE LET err == Eval(validators[i], r).err
         IN  IF err.isnil
             THEN [err |-> NilError, evaluated |-> Evaluated(i, err)]
             ELSE LET rest == AnyLoop(validators, r, i + 1, Append(errs, err))
                  IN  [err |-> rest.err, evaluated |-> Evaluated(i, err) \o rest.evaluated]

\* v(r): the error returned and the calls of v's own sub-validators, in order
Eval(v, r) ==
    CASE v.op = "OK" -> [err |-> ValidateOK(r), evaluated |-> <<>>]
      [] v.op = "StatusCode" -> [err |-> ValidateStatusCode(v.expected, r), evaluated |-> <<>>]
      [] v.op = "All" -> AllLoop(v.validators, r, 1)
      [] v.op = "Any" -> AnyLoop(v.validators, r, 1, <<>>)
      [] v.op = "Not" ->
            LET err == Eval(v.validators[1], r).err
            IN  [err |-> NotResult(err, r), evaluated |-> Evaluated(1, err)]

InitValidate ==
    /\ EngineUnused("Validator")
    /\ rt = NotCalled
    /\ mw = NotCalled
    /\ bo = NotCalled
    /\ sh = NotCalled
    /\ bd = NotCalled
    /\ \E v \in Validators, r \in VaResponses :
          va = [pc |-> "call", validator |-> v, r |-> r,
                err |-> NilError, evaluated |-> <<>>]

\* err := validator(r)
CallValidator ==
    /\ va.pc = "call"
    /\ LET out == Eval(va.validator, va.r)
       IN  va' = [va EXCEPT !.pc = "returned", !.err = out.err,
                            !.evaluated = out.evaluated]
    /\ UNCHANGED <<engineVars, rt, mw, bo, sh, bd>>

NextValidate == CallValidator

SpecValidate == InitValidate /\ [][NextValidate]_vars

ValidatorReturned(op) ==
    entry = "Validator" /\ va.pc = "returned" /\ va.validator.op = op

\* the positions of the sub-validators that fail on r, each applied on its own
Failing(validators, r) ==
    {i \in 1..Len(validators) : ~Eval(validators[i], r).err.isnil}

Passing(validators, r) == (1..Len(validators)) \ Failing(validators, r)

First(S) == CHOOSE i \in S : \A j \in S : i <= j

InListOrder(evaluated) == \A i \in 1..Len(evaluated) : evaluated[i].index = i

\* C18: Validate.All(v1, ..., vn) calls its sub-validators in list order; when
\* some fail it returns the error of the first failing one and has called none
\* after it; it returns nil exactly when every sub-validator passes.
C18_AllStopsAtFirstFailure ==
    ValidatorReturned("All")
    => LET l == va.validator.validators
           F == Failing(l, va.r)
       IN  /\ InListOrder(va.evaluated)
           /\ (va.err.isnil <=> F = {})
           /\ (F = {} => Len(va.evaluated) = Len(l))
           /\ (F # {} => /\ Len(va.evaluated) = First(F)
                         /\ va.err = Eval(l[First(F)], va.r).err)

C18_Witness ==
    /\ ValidatorReturned("All")
    /\ va.r = MkResponse(TRUE, 200, NoErr)
    /\ va.validator.validators
          = <<Leaf("OK", 0), Leaf("StatusCode", 404), ValidateNot(Leaf("OK", 0))>>
    /\ Len(va.evaluated) = 2
    /\ va.err = Errorf(<<"expected status ", "404", ", got ", "200">>)

RECURSIVE ContainsInOrder(_, _, _, _)
\* msg holds parts[k], parts[k+1], ... one after another, somewhere from pos on
ContainsInOrder(msg, parts, k, pos) ==
    IF k > Len(parts) THEN TRUE
    ELSE \E p \in pos..(Len(msg) - Len(parts[k]) + 1) :
            /\ SubSeq(msg, p, p + Len(parts[k]) - 1) = parts[k]
            /\ ContainsInOrder(msg, parts, k + 1, p + Len(parts[k]))

\* C19: Validate.Any(v1, ..., vn) returns nil exactly when some sub-validator
\* passes, having called the sub-validators in list order up to the first one
\* that passes; when none passes (n = 0 and n = 1 included) it has called all
\* of them and returns an error whose message holds every sub-validator's
\* failure message, in list order.
C19_AnyAggregatesFailures ==
    ValidatorReturned("Any")
    => LET l == va.validator.validators
           P == Passing(l, va.r)
       IN  /\ InListOrder(va.evaluated)
           /\ (va.err.isnil <=> P # {})
           /\ (P # {} => Len(va.evaluated) = First(P))
           /\ (P = {} =>
                 /\ Len(va.evaluated) = Len(l)
                 /\ ContainsInOrder(va.err.msg,
                                    [i \in 1..Len(l) |-> Eval(l[i], va.r).err.msg], 1, 1))

C19_Witness ==
    /\ ValidatorReturned("Any")
    /\ va.r = MkResponse(TRUE, 500, NoErr)
    /\ va.validator.validators
          = <<Leaf("StatusCode", 404), Leaf("OK", 0), Leaf("StatusCode", 200)>>
    /\ Len(va.evaluated) = 3
    /\ va.err.msg[1] = "all validators failed:"
    /\ Len(va.err.msg) = 14

\* C20: Validate.Not(v) returns nil on r exactly when v returns an error on r,
\* whether or not r carries an error of its own; and Not(Not(v)) returns nil
\* exactly when v does.
C20_NotInverts ==
    ValidatorReturned("Not")
    => LET v == va.validator.validators[1]
       IN  /\ (va.err.isnil <=> ~Eval(v, va.r).err.isnil)
           /\ (v.op = "Not" =>
                  (va.err.isnil <=> Eval(v.validators[1], va.r).err.isnil))

C20_Witness ==
    /\ ValidatorReturned("Not")
    /\ va.validator = ValidateNot(Leaf("OK", 0))
    /\ va.r = ErrResponse(TransportErr)
    /\ va.err.isnil

----------------------------------------------------------------------------
(* Backoff functions: ExponentialBackoff, LinearBackoff, ConstantBackoff *)

\* time.Duration and int are 64-bit two's complement integers; the model keeps
\* the wrap-around at this width, one unit being 25ms
DurationBits == 16

Modulus == 2 ^ DurationBits

MaxDuration == 2 ^ (DurationBits - 1) - 1

MinDuration == -(2 ^ (DurationBits - 1))

\* the result of an integer operation whose exact value is x
Wrap(x) == ((x - MinDuration) % Modulus) + MinDuration

\* time.Duration(f) for a float f = num / den >= 0: truncation; for a value
\* the integer type cannot hold the result depends on the platform (the
\* minimum on amd64, the maximum on arm64)
ConvertFloat(num, den) ==
    IF num \div den > MaxDuration THEN {MinDuration, MaxDuration}
    ELSE {num \div den}

\* the multipliers 1.0, 1.5 and 2.0 as fractions
BackoffMultipliers ==
    {[num |-> 1, den |-> 1], [num |-> 3, den |-> 2], [num |-> 2, den |-> 1]}

BackoffBases == {1, 4}

BackoffIncrements == {0, 2}

BackoffCaps == {20, 40}

\* attempt indexes handed to an exponential backoff
ExponentialAttempts == 0..17

\* attempt indexes handed to a linear backoff: small ones, and large ones
LinearAttempts == {0, 1, 2, 3, 8, 18, 16000, 16382, 16384, 24000, 32767}

RECURSIVE IntPow(_, _)
IntPow(b, e) == IF e = 0 THEN 1 ELSE b * IntPow(b, e - 1)

\* the values ExponentialBackoff(base, multiplier, maxDelay)(attempt) can return
ExponentialBackoff(base, multiplier, maxDelay, i) ==
    {LET d == Wrap(base * p)
     IN  IF d > maxDelay THEN maxDelay ELSE d :
        p \in ConvertFloat(IntPow(multiplier.num, i), IntPow(multiplier.den, i))}

\* LinearBackoff(base, increment, maxDelay)(attempt)
LinearBackoff(base, increment, maxDelay, i) ==
    LET d == Wrap(base + Wrap(increment * i))
    IN  IF d > maxDelay THEN maxDelay ELSE d

\* ConstantBackoff(delay)(attempt)
ConstantBackoff(d, i) == d

BackoffCalls ==
    {[pc |-> "call", func |-> "ExponentialBackoff", base |-> b, multiplier |-> m,
      increment |-> 0, maxDelay |-> c, attempt |-> i, ret |-> 0] :
        b \in BackoffBases, m \in BackoffMultipliers, c \in BackoffCaps,
        i \in ExponentialAttempts}
    \cup
    {[pc |-> "call", func |-> "LinearBackoff", base |-> b,
      multiplier |-> [num |-> 1, den |-> 1],
      increment |-> n, maxDelay |-> c, attempt |-> i, ret |-> 0] :
        b \in BackoffBases, n \in BackoffIncrements, c \in BackoffCaps,
        i \in LinearAttempts}
    \cup
    {[pc |-> "call", func |-> "ConstantBackoff", base |-> b,
      multiplier |-> [num |-> 1, den |-> 1],
      increment |-> 0, maxDelay |-> 0, attempt |-> i, ret |-> 0] :
        b \in BackoffBases, i \in LinearAttempts}

InitBackoff ==
    /\ EngineUnused("Backoff")
    /\ rt = NotCalled
    /\ mw = NotCalled
    /\ va = NotCalled
    /\ sh = NotCalled
    /\ bd = NotCalled
    /\ bo \in BackoffCalls

CallExponentialBackoff ==
    /\ bo.pc = "call"
    /\ bo.func = "ExponentialBackoff"
    /\ \E d \in ExponentialBackoff(bo.base, bo.multiplier, bo.maxDelay, bo.attempt) :
          bo' = [bo EXCEPT !.pc = "returned", !.ret = d]
    /\ UNCHANGED <<engineVars, rt, mw, va, sh, bd>>

CallLinearBackoff ==
    /\ bo.pc = "call"
    /\ bo.func = "LinearBackoff"
    /\ bo' = [bo EXCEPT !.pc = "returned",
                        !.ret = LinearBackoff(bo.base, bo.increment, bo.maxDelay, bo.attempt)]
    /\ UNCHANGED <<engineVars, rt, mw, va, sh, bd>>

CallConstantBackoff ==
    /\ bo.pc = "call"
    /\ bo.func = "ConstantBackoff"
    /\ bo' = [bo EXCEPT !.pc = "returned", !.ret = ConstantBackoff(bo.base, bo.attempt)]
    /\ UNCHANGED <<engineVars, rt, mw, va, sh, bd>>

NextBackoff ==
    \/ CallExponentialBackoff
    \/ CallLinearBackoff
    \/ CallConstantBackoff

SpecBackoff == InitBackoff /\ [][NextBackoff]_vars

BackoffReturned(f) == entry = "Backoff" /\ bo.pc = "returned" /\ bo.func = f

Min(a, b) == IF a <= b THEN a ELSE b

\* C21: ExponentialBackoff(base, multiplier, cap)(i) is min(base * multiplier^i, cap)
\* (the product cut to a whole duration) for every multiplier >= 1, whole or
\* fractional, and every index i >= 0, never a wrapped or negative value.
C21_ExponentialIsCappedPower ==
    BackoffReturned("ExponentialBackoff")
    => bo.ret = Min((bo.base * IntPow(bo.multiplier.num, bo.attempt))
                        \div IntPow(bo.multiplier.den, bo.attempt),
                    bo.maxDelay)

\* C22: LinearBackoff(base, increment, cap)(i) is min(base + increment * i, cap)
\* for every increment >= 0 and every index i >= 0, never a wrapped or negative
\* value.
C22_LinearIsCappedSum ==
    BackoffReturned("LinearBackoff")
    => bo.ret = Min(bo.base + bo.increment * bo.attempt, bo.maxDelay)

----------------------------------------------------------------------------
(* Further properties of the retry engine *)

\* C23: within one DoWithRetry invocation at most one transport exchange is
\* in flight at any time, and an attempt begins only when no exchange is in
\* flight, with the loop index equal to the number of attempts made before
\* it, each of which has had its outcome put to the retry predicate and has
\* been followed by a wait that ended.
C23_AttemptsAreSequential ==
    [][entry = "DoWithRetry" =>
          /\ inFlight' <= 1
          /\ (calls' # calls =>
                 /\ calls' = calls + 1
                 /\ inFlight = 0
                 /\ attempt = calls
                 /\ predCalls = calls
                 /\ Len(waits) = calls)]_vars

C23_Witness ==
    /\ entry = "DoWithRetry" /\ pc = "inflight"
    /\ calls = 3 /\ attempt = 2 /\ inFlight = 1
    /\ predCalls = 2 /\ Len(waits) = 2

----------------------------------------------------------------------------
(* Two executions of one Request that carries a body *)

Runs == {1, 2}

Other(p) == 3 - p

\* MaxAttempts of the two executions
SharedMaxAttempts == 1..2

\* one execution before its call: the loop index, the reader it is reading
\* (src) and what it has read from it so far (buf), bodyBytes, the bodies its
\* attempts sent, and whether the other execution had returned or was under
\* way when this one was called
IdleRun(f, n) ==
    [func |-> f, MaxAttempts |-> n, pc |-> "idle", attempt |-> 0, src |-> 0,
     buf |-> <<>>, bodyBytes |-> <<>>, sent |-> <<>>,
     afterOther |-> FALSE, duringOther |-> FALSE]

\* Request.body refers to a reader on the heap; the first reader is the one
\* the caller gave to Body
InitShared ==
    /\ EngineUnused("Shared")
    /\ rt = NotCalled
    /\ mw = NotCalled
    /\ va = NotCalled
    /\ bo = NotCalled
    /\ bd = NotCalled
    /\ \E f \in {"DoWithRetry", "DoContext"}, n1, n2 \in SharedMaxAttempts :
          sh = [body |-> 1,
                readers |-> <<NewReader(OriginalBody)>>,
                run |-> [p \in Runs |-> IF p = 1 THEN IdleRun("DoWithRetry", n1)
                                        ELSE IdleRun(f, IF f = "DoContext" THEN 1 ELSE n2)]]

\* The call: DoWithRetry starts io.ReadAll(r.body) (line 56); DoContext goes
\* straight to building the wire request
SharedCall(p) ==
    /\ sh.run[p].pc = "idle"
    /\ sh' = [sh EXCEPT !.run[p].pc = IF sh.run[p].func = "DoWithRetry" THEN "readAll"
                                      ELSE "doContext",
                        !.run[p].src = sh.body,
                        !.run[p].afterOther = (sh.run[Other(p)].pc = "returned"),
                        !.run[p].duringOther =
                            (sh.run[Other(p)].pc \notin {"idle", "returned"})]

\* One Read on the reader an execution holds, by io.ReadAll (line 56) or by
\* the transport reading the request body (client.Do, rq.go 218): some of
\* the bytes left, or EOF
SharedRead(p) ==
    /\ sh.run[p].pc \in {"readAll", "transport"}
    /\ LET me == sh.run[p]
           rd == sh.readers[me.src]
       IN  IF rd.pos < Len(rd.data)
           THEN \E n \in (rd.pos + 1)..Len(rd.data) :
                   sh' = [sh EXCEPT !.readers[me.src].pos = n,
                                    !.run[p].buf = me.buf \o SubSeq(rd.data, rd.pos + 1, n)]
           ELSE IF me.pc = "readAll"
           THEN sh' = [sh EXCEPT !.run[p].bodyBytes = me.buf,
                                 !.run[p].buf = <<>>,
                                 !.run[p].pc = "loop"]
           ELSE sh' = [sh EXCEPT !.run[p].sent = Append(me.sent, me.buf),
                                 !.run[p].buf = <<>>,
                                 !.run[p].pc = IF me.func = "DoWithRetry" THEN "retryIf"
                                               ELSE "returned"]

\* lines 65-68: the loop test and r.body = bytes.NewReader(bodyBytes)
SharedLoopHead(p) ==
    /\ sh.run[p].pc = "loop"
    /\ IF sh.run[p].attempt < sh.run[p].MaxAttempts
       THEN sh' = [sh EXCEPT !.readers = Append(@, NewReader(sh.run[p].bodyBytes)),
                             !.body = Len(sh.readers) + 1,
                             !.run[p].pc = "doContext"]
       ELSE sh' = [sh EXCEPT !.run[p].pc = "returned"]

\* rq.go 202: http.NewRequestWithContext(ctx, r.method, u.String(), r.body)
SharedDoContext(p) ==
    /\ sh.run[p].pc = "doContext"
    /\ sh' = [sh EXCEPT !.run[p].src = sh.body,
                        !.run[p].buf = <<>>,
                        !.run[p].pc = "transport"]

\* lines 72-95: the predicate refuses and the response is returned, or the
\* attempt was the last one, or the loop goes round
SharedRetryIf(p) ==
    /\ sh.run[p].pc = "retryIf"
    /\ \/ sh' = [sh EXCEPT !.run[p].pc = "returned"]
       \/ /\ ~IsLastAttempt(sh.run[p].attempt, sh.run[p])
          /\ sh' = [sh EXCEPT !.run[p].attempt = @ + 1, !.run[p].pc = "loop"]

Call == \E p \in Runs : SharedCall(p) /\ UNCHANGED <<engineVars, rt, mw, va, bo, bd>>

Read == \E p \in Runs : SharedRead(p) /\ UNCHANGED <<engineVars, rt, mw, va, bo, bd>>

InstallReader == \E p \in Runs : SharedLoopHead(p) /\ UNCHANGED <<engineVars, rt, mw, va, bo, bd>>

BuildRequest == \E p \in Runs : SharedDoContext(p) /\ UNCHANGED <<engineVars, rt, mw, va, bo, bd>>

Decide == \E p \in Runs : SharedRetryIf(p) /\ UNCHANGED <<engineVars, rt, mw, va, bo, bd>>

NextShared ==
    \/ Call
    \/ Read
    \/ InstallReader
    \/ BuildRequest
    \/ Decide

SpecShared == InitShared /\ [][NextShared]_vars

SendsWholeBody(p) ==
    \A i \in 1..Len(sh.run[p].sent) : sh.run[p].sent[i] = OriginalBody

\* C24: when two DoWithRetry invocations run at the same time on one Request
\* that carries a body, every attempt of each of them sends the complete
\* original body, whatever the interleaving.
C24_ConcurrentRunsSendWholeBody ==
    (entry = "Shared" /\ \A p \in Runs : sh.run[p].func = "DoWithRetry")
    => \A p \in Runs :
          (sh.run[p].duringOther \/ sh.run[Other(p)].duringOther) => SendsWholeBody(p)

\* C29: an execution (DoWithRetry or DoContext) called on a Request after a
\* DoWithRetry on the same Request has returned sends, in each of its
\* attempts, the complete body the first execution sent.
C29_SecondRunSendsSameBody ==
    entry = "Shared"
    => \A p \in Runs :
          (sh.run[p].afterOther /\ sh.run[Other(p)].func = "DoWithRetry")
              => SendsWholeBody(p)

----------------------------------------------------------------------------
(* The schedule of waits *)

RECURSIVE ScheduledDelay(_, _)
\* the delay before the k-th retry as lines 63 and 91-94 alone compute it:
\* Delay, then min(previous * Multiplier, MaxDelay)
ScheduledDelay(k, cfg) ==
    IF k = 0 THEN cfg.Delay ELSE NextDelay(ScheduledDelay(k - 1, cfg), cfg)

\* C25: with Jitter enabled the k-th wait of a run lies between D_k and
\* 1.3 * D_k, D_k being the schedule computed without jitter.
C25_JitterWithinThirtyPercent ==
    (entry = "DoWithRetry" /\ pc # "call" /\ config.Jitter)
    => \A k \in 1..Len(waits) :
          /\ ScheduledDelay(k - 1, config) <= waits[k]
          /\ 10 * waits[k] <= 13 * ScheduledDelay(k - 1, config)

\* C26: with Jitter disabled the k-th wait of a run is d_k, where d_0 = Delay
\* and d_(k+1) = min(d_k * Multiplier, MaxDelay); and a run that returns
\* without its context having been cancelled has waited once between every
\* two attempts and not after the last: one time fewer than it made attempts
\* (never, when it made none).
C26_WaitsFollowSchedule ==
    (entry = "DoWithRetry" /\ pc # "call" /\ ~config.Jitter)
    => /\ \A k \in 1..Len(waits) : waits[k] = ScheduledDelay(k - 1, config)
       /\ (pc = "done" /\ ctx = "live" =>
              Len(waits) = IF calls = 0 THEN 0 ELSE calls - 1)

C26_Witness ==
    /\ Returned /\ ctx = "live" /\ ~config.Jitter
    /\ config.Multiplier = 20 /\ config.MaxDelay = 6
    /\ calls = 3
    /\ waits = <<4, 6>>

\* C28: DoWithRetry calls the configured retry predicate once after every
\* attempt and at no other time, after the last allowed attempt and after an
\* attempt that ended in an error without an HTTP response as well: while an
\* attempt is under way or its outcome waits to be judged the predicate has
\* been called once for each earlier attempt, and at every other time, the
\* return included, as often as attempts were made.
C28_PredicateOncePerAttempt ==
    (entry = "DoWithRetry" /\ pc # "call" /\ config.RetryIf # "unset")
    => IF pc \in {"inflight", "retryIf"}
       THEN predCalls = calls - 1
       ELSE predCalls = calls

C28_Witness ==
    /\ Returned /\ config.RetryIf = "default"
    /\ config.MaxAttempts = 3 /\ calls = 3 /\ predCalls = 3
    /\ result = ErrResponse(TransportErr)

----------------------------------------------------------------------------
(* Termination *)

\* Every step of the invocation itself is eventually taken: the goroutine
\* keeps running, each transport exchange completes and each wait ends.  The
\* cancellation of the context is left to the caller.
FairSpec ==
    /\ Spec
    /\ WF_vars(Enter)
    /\ WF_vars(LoopHead)
    /\ WF_vars(DoContext)
    /\ WF_vars(TransportReturn)
    /\ WF_vars(EvalRetryIf)
    /\ WF_vars(Select)
    /\ WF_vars(Wake)

Max(a, b) == IF a >= b THEN a ELSE b

\* the predicate the invocation will use is the default one, one that always
\* asks for a retry, or none
PredicateCannotFail == config.isnil \/ config.RetryIf \in {"default", "always", "unset"}

\* C30: every DoWithRetry invocation eventually returns; at every moment it
\* has made at most max(MaxAttempts, 0) attempts, and when it returns it has
\* waited fewer times than it made attempts (never, when it made none).
C30_EventuallyReturns ==
    /\ (entry = "DoWithRetry" /\ PredicateCannotFail) => <>(pc = "done")
    /\ [](entry = "DoWithRetry" /\ pc # "call" =>
            /\ calls <= Max(config.MaxAttempts, 0)
            /\ Len(waits) <= calls
            /\ (pc = "done" => Len(waits) <= Max(calls - 1, 0)))

\* the same for the invocations whose config carries a predicate
C30_ReturnsWithPredicate ==
    /\ (entry = "DoWithRetry" /\ (config.isnil \/ config.RetryIf \in {"default", "always"}))
           => <>(pc = "done")
    /\ [](entry = "DoWithRetry" /\ pc # "call" =>
            /\ calls <= Max(config.MaxAttempts, 0)
            /\ Len(waits) <= calls
            /\ (pc = "done" => Len(waits) <= Max(calls - 1, 0)))

----------------------------------------------------------------------------
(* The Request builder *)

MaxBuilderCalls == 3

BuilderHeaderKeys == HeaderKeys \cup {"Authorization", "Content-Type"}

MarshalErr == "failed to marshal JSON"

ProxyErr == "configure proxy"

ProxyURLErr == "invalid proxy URL"

\* New()
NewRequest ==
    [err |-> NoErr, method |-> "GET", url |-> "", client |-> "defaultClient",
     headers |-> [k \in BuilderHeaderKeys |-> <<>>],
     queryParams |-> <<>>, body |-> "nil", timeout |-> 0, validators |-> 0]

\* Request.Method, URL, Client: one field stored
SetMethod(r, method) == IF r.err # NoErr THEN r ELSE [r EXCEPT !.method = method]

SetURL(r, urlStr) == IF r.err # NoErr THEN r ELSE [r EXCEPT !.url = urlStr]

SetClient(r, client) == IF r.err # NoErr THEN r ELSE [r EXCEPT !.client = client]

\* Request.QueryParam: url.Values.Add
QueryParam(r, value) ==
    IF r.err # NoErr THEN r ELSE [r EXCEPT !.queryParams = Append(@, value)]

\* Request.QueryParams with a one-entry map: url.Values.Set
QueryParams(r, value) ==
    IF r.err # NoErr THEN r ELSE [r EXCEPT !.queryParams = <<value>>]

\* Request.Body, BodyString, BodyBytes: the reader stored
SetBody(r, reader) == IF r.err # NoErr THEN r ELSE [r EXCEPT !.body = reader]

\* Request.BodyJSON; marshals: json.Marshal(v) succeeds
BodyJSON(r, marshals) ==
    IF r.err # NoErr THEN r
    ELSE IF ~marshals THEN [r EXCEPT !.err = MarshalErr]
    ELSE [r EXCEPT !.body = "json", !.headers["Content-Type"] = <<"application/json">>]

\* Request.BodyForm
BodyForm(r) ==
    IF r.err # NoErr THEN r
    ELSE [r EXCEPT !.body = "form",
                   !.headers["Content-Type"] = <<"application/x-www-form-urlencoded">>]

\* Request.Auth, BasicAuth, BearerToken: the Authorization header set
SetAuthorization(r, value) ==
    IF r.err # NoErr THEN r ELSE [r EXCEPT !.headers["Authorization"] = <<value>>]

\* Request.WithAuth with a provider whose Apply sets a bearer token
WithAuth(r) == IF r.err # NoErr THEN r ELSE SetAuthorization(r, "Bearer provider")

\* Request.Proxy without the test of the stored error
ProxyUnguarded(r, creates) ==
    IF ~creates THEN [r EXCEPT !.err = ProxyErr]
    ELSE [r EXCEPT !.client = "proxied"]

\* Request.Proxy; creates: config.CreateTransport succeeds
Proxy(r, creates) ==
    IF r.err # NoErr THEN r
    ELSE IF ~creates THEN [r EXCEPT !.err = ProxyErr]
    ELSE [r EXCEPT !.client = "proxied"]

\* Request.ProxyURL; parses: ProxyFromURL succeeds
ProxyURL(r, parses, creates) ==
    IF r.err # NoErr THEN r
    ELSE IF ~parses THEN [r EXCEPT !.err = ProxyURLErr]
    ELSE Proxy(r, creates)

\* Request.Validate: one validator appended
Validate(r) == IF r.err # NoErr THEN r ELSE [r EXCEPT !.validators = @ + 1]

BuilderOps ==
    {[name |-> n, ok |-> TRUE, m |-> 0] :
        n \in {"Method", "URL", "Client", "Timeout", "Header", "Headers", "QueryParam",
               "QueryParams", "Body", "BodyString", "BodyBytes", "BodyForm", "Auth",
               "BasicAuth", "BearerToken", "WithAuth", "Validate"}}
        \cup {[name |-> n, ok |-> b, m |-> 0] :
                n \in {"BodyJSON", "Proxy", "ProxyURL", "ProxyURL config"}, b \in BOOLEAN}
        \cup {[name |-> "Use", ok |-> TRUE, m |-> k] : k \in 1..4}

\* the built-in middleware, by number
BuiltIn(k) ==
    <<[kind |-> "Logging", key |-> "", value |-> ""],
      [kind |-> "UserAgent", key |-> "User-Agent", value |-> "a"],
      [kind |-> "Timeout", key |-> "", value |-> ""],
      [kind |-> "Headers", key |-> "X-Middleware-1", value |-> "b"]>>[k]

\* the builder call op made on r
ApplyBuilder(op, r) ==
    CASE op.name = "Method" -> SetMethod(r, "POST")
      [] op.name = "URL" -> SetURL(r, "http://host/")
      [] op.name = "Client" -> SetClient(r, "custom")
      [] op.name = "Timeout" -> SetTimeout(r, 7)
      [] op.name = "Header" -> HeaderAdd(r, "User-Agent", "b")
      [] op.name = "Headers" -> HeadersSet(r, "User-Agent", "a")
      [] op.name = "QueryParam" -> QueryParam(r, "1")
      [] op.name = "QueryParams" -> QueryParams(r, "2")
      [] op.name = "Body" -> SetBody(r, "io.Reader")
      [] op.name = "BodyString" -> SetBody(r, "strings.Reader")
      [] op.name = "BodyBytes" -> SetBody(r, "bytes.Reader")
      [] op.name = "BodyJSON" -> BodyJSON(r, op.ok)
      [] op.name = "BodyForm" -> BodyForm(r)
      [] op.name = "Auth" -> SetAuthorization(r, "Custom credentials")
      [] op.name = "BasicAuth" -> SetAuthorization(r, "Basic dXNlcjpwYXNz")
      [] op.name = "BearerToken" -> SetAuthorization(r, "Bearer token")
      [] op.name = "WithAuth" -> WithAuth(r)
      [] op.name = "Proxy" -> Proxy(r, op.ok)
      [] op.name = "ProxyURL" -> ProxyURL(r, op.ok, TRUE)
      [] op.name = "ProxyURL config" -> ProxyURL(r, TRUE, op.ok)
      [] op.name = "Validate" -> Validate(r)
      [] op.name = "Use" -> ApplyMiddleware(BuiltIn(op.m), r)

NoOp == [name |-> "New", ok |-> TRUE, m |-> 0]

InitBuilder ==
    /\ EngineUnused("Builder")
    /\ rt = NotCalled
    /\ mw = NotCalled
    /\ va = NotCalled
    /\ bo = NotCalled
    /\ sh = NotCalled
    /\ bd = [r |-> NewRequest, n |-> 0, last |-> NoOp, poisonedAt |-> 0]

\* one more builder call on the Request
BuilderCall ==
    /\ bd.n < MaxBuilderCalls
    /\ \E op \in BuilderOps :
          LET out == ApplyBuilder(op, bd.r)
          IN  bd' = [r |-> out, n |-> bd.n + 1, last |-> op,
                     poisonedAt |-> IF bd.r.err = NoErr /\ out.err # NoErr
                                    THEN bd.n + 1 ELSE bd.poisonedAt]
    /\ UNCHANGED <<engineVars, rt, mw, va, bo, sh>>

NextBuilder == BuilderCall

SpecBuilder == InitBuilder /\ [][NextBuilder]_vars

\* C27: once the Request's stored error is set, every later builder call,
\* failing ones included, leaves every field of the Request as it was: the
\* method, URL, headers, query parameters, body, timeout, client, validators
\* and the stored error itself.
C27_PoisonedBuilderIsInert ==
    [][(entry = "Builder" /\ bd.r.err # NoErr) => bd'.r = bd.r]_vars

C27_Witness ==
    /\ entry = "Builder"
    /\ bd.n = 3 /\ bd.poisonedAt = 1
    /\ bd.last = [name |-> "ProxyURL", ok |-> FALSE, m |-> 0]
    /\ bd.r = [NewRequest EXCEPT !.err = MarshalErr]


=============================================================================
